---- MODULE Spec2Model ----
(***************************************************************************)
(* State-machine model of the per-frame animation core of                  *)
(* src/src/ParticleEffect.js:                                              *)
(*   - PFPCard: card spin and two-texture crossfade (React state, refs,    *)
(*     effects and the useFrame callback);                                 *)
(*   - FloatingParticles: transaction burst controller, respawn pass and   *)
(*     forcefield displacement;                                            *)
(*   - ParticleFrame: burst latch and frame callback.                      *)
(*                                                                         *)
(* React semantics assumed by the model: a handler (frame callback, loader *)
(* callback, prop change) runs to its end; the state updates it queued are *)
(* then rendered and committed, and the effects whose dependencies changed *)
(* run in declaration order with the values of that render; updates queued *)
(* by effects are rendered in turn, until no update is left.  All of this  *)
(* happens before the next handler runs.                                   *)
(*                                                                         *)
(* Numbers: time is counted in ticks (TicksPerSecond per second); every    *)
(* fractional quantity of the source is kept as an exact integer numerator *)
(* over a fixed denominator (ProgressOne, OpacityOne).                     *)
(***************************************************************************)
EXTENDS Integers, Sequences, FiniteSets, Bags, TLC

\* ---------------------------------------------------------------- bounds
HalfTicksPerSecond == 2        \* time resolution: 2*2 ticks per second
MaxDelta == 2                  \* longest frame interval, in ticks
MaxLoads == 3                  \* number of texture loads ever requested
AnglePerPi == 2                \* angle resolution: units per half turn
MaxTime == 8                   \* the particle clock stops at this tick
EpochTicks == 40               \* Date.now() when the particle clock starts
MaxTurns == 2                  \* largest base rotation tried, in turns
MaxLifeTime == 4               \* the clock stops at this tick for the respawn pass
FrameOvertime == 2             \* ParticleFrame: ticks observed past one lifetime
numParticles == 2              \* number of particles of the frame swarm
MaxBurstFrames == 3            \* frames that integrate the particles of one burst

TicksPerSecond == 2 * HalfTicksPerSecond
Deltas == 1..MaxDelta

\* ------------------------------------------------------ program constants
SpinSpeedNum == 3              \* spinSpeed = 1.5 = 3/2
SpinSpeedDen == 2
CrossfadeStartNum == 4         \* crossfadeStart = 0.4 = 4/10
CrossfadeStartDen == 10
TransitionSpeed == 2           \* transitionSpeed = 2.0

numBurstParticles == 50
BurstDurationNum == 3          \* default burstDuration = 1.5 = 3/2
BurstDurationDen == 2
MaxLifeTenths == {8, 10}       \* maxLife = 0.8 + Math.random() * 0.4

Null == 0                      \* the null texture / image
NoMesh == -1                   \* opacity of a mesh that is not mounted
NoWrite == -2                  \* a frame that wrote no opacity to a slot

\* spinProgress and transitionProgress are numerators over ProgressOne,
\* opacities and the crossfade progress are numerators over OpacityOne.
ProgressOne == SpinSpeedDen * TicksPerSecond
OpacityOne == (CrossfadeStartDen - CrossfadeStartNum) * ProgressOne
TwoPi == 2 * AnglePerPi

Min(a, b) == IF a < b THEN a ELSE b
Max(a, b) == IF a > b THEN a ELSE b

\* JavaScript's % operator: the result takes the sign of the dividend.
JsRem(a, b) == IF a >= 0 THEN a % b ELSE 0 - ((0 - a) % b)

VARIABLES
  \* PFPCard props
  generatedImage, isGenerating,
  \* PFPCard React state
  currentTexture, nextTexture, isTransitioning, isSpinning,
  \* PFPCard refs
  baseRotation, spinStartRotation, spinProgress, transitionProgress,
  \* material opacities of the two texture meshes
  currentOpacity, nextOpacity,
  \* texture loads in flight, number of loads requested so far
  loads, requests,
  \* observation of the last step
  event, finalized, frameWrote, before, arrived

cardVars == <<generatedImage, isGenerating, currentTexture, nextTexture,
              isTransitioning, isSpinning, baseRotation, spinStartRotation,
              spinProgress, transitionProgress, currentOpacity, nextOpacity,
              loads, requests, event, finalized, frameWrote, before,
              arrived>>

VARIABLES
  \* FloatingParticles props
  transactionEffect, effectConfig,
  \* FloatingParticles refs
  burstState, lastTime,
  \* Date.now() and state.clock.getElapsedTime(), in ticks
  dateNow, clockTime,
  \* shader uniforms
  uTime, uTransactionType, uTransactionIntensity,
  \* observation of the last step
  burstEvent

burstVars == <<transactionEffect, effectConfig, burstState, lastTime, dateNow,
               clockTime, uTime, uTransactionType, uTransactionIntensity,
               burstEvent>>

VARIABLES
  \* FloatingParticles prop: the avatar geometry, or NoGeom
  sourceGeom,
  \* particleAttributes.lifetimes and the position buffer of the geometry
  lifetimes, positions,
  \* observation of the last frame callback: the steps it took in order, the
  \* forcefield it read, the age computed for each particle, the particles it
  \* respawned and the distances it divided by
  frameSteps, forcefield, ages, respawned, divisions, originalPositions,
  velocities, previousPositions

lifeVars == <<sourceGeom, lifetimes, positions, frameSteps, forcefield, ages,
              respawned, divisions, originalPositions, velocities,
              previousPositions>>

VARIABLES
  \* ParticleFrame: particleData.lifetimes, the position buffer, refs
  frameLifetimes, framePositions, wasBursting, burstTime,
  \* observation of the last frame callback of ParticleFrame: its clock
  \* reading and that of the callback before it, how it ended, the particles
  \* it respawned
  frameTime, previousFrameTime, frameOutcome, frameRespawned

swarmVars == <<frameLifetimes, framePositions, wasBursting, burstTime,
               frameTime, previousFrameTime, frameOutcome, frameRespawned>>

vars == <<cardVars, burstVars, lifeVars, swarmVars>>

\* --------------------------------------------------------------- PFPCard

\* The rendered React state and the mesh materials, as one record.
Rendered == [currentTexture |-> currentTexture, nextTexture |-> nextTexture,
             isTransitioning |-> isTransitioning, isSpinning |-> isSpinning,
             currentOpacity |-> currentOpacity, nextOpacity |-> nextOpacity,
             finalized |-> FALSE]

StateOf(s) == <<s.currentTexture, s.nextTexture, s.isTransitioning, s.isSpinning>>

\* JSX: the next mesh exists only while {nextTexture && isTransitioning}.
NextMeshMounted(s) == s.nextTexture # Null /\ s.isTransitioning

\* Commit of a render: the current mesh gets a new material (opacity 1) when
\* it switches between the textured and the placeholder material; the next
\* mesh is mounted with a new material (opacity 1) or unmounted.
HostCommit(prev, s) ==
  [s EXCEPT
     !.currentOpacity = IF (prev.currentTexture = Null) # (s.currentTexture = Null)
                        THEN OpacityOne ELSE @,
     !.nextOpacity = IF ~NextMeshMounted(s) THEN NoMesh
                     ELSE IF ~NextMeshMounted(prev) THEN OpacityOne ELSE @]

\* useEffect [currentTexture, isTransitioning]: reset the current opacity.
OpacityEffect(prev, s) ==
  IF /\ <<prev.currentTexture, prev.isTransitioning>> # <<s.currentTexture, s.isTransitioning>>
     /\ ~s.isTransitioning
  THEN [s EXCEPT !.currentOpacity = OpacityOne]
  ELSE s

\* useEffect [isSpinning, isTransitioning, nextTexture]: "Handle spin completion".
SpinCompletionEffectNoSpinCheck(prev, s) ==
  IF /\ <<prev.isSpinning, prev.isTransitioning, prev.nextTexture>>
          # <<s.isSpinning, s.isTransitioning, s.nextTexture>>
     /\ s.isTransitioning /\ s.nextTexture # Null
  THEN [s EXCEPT !.currentTexture = s.nextTexture, !.nextTexture = Null,
                 !.isTransitioning = FALSE, !.finalized = TRUE]
  ELSE s

SpinCompletionEffect(prev, s) ==
  IF /\ <<prev.isSpinning, prev.isTransitioning, prev.nextTexture>>
          # <<s.isSpinning, s.isTransitioning, s.nextTexture>>
     /\ ~s.isSpinning /\ s.isTransitioning /\ s.nextTexture # Null
  THEN [s EXCEPT !.currentTexture = s.nextTexture, !.nextTexture = Null,
                 !.isTransitioning = FALSE, !.finalized = TRUE]
  ELSE s

\* Render the queued state s (the previous render had prev), run the effects
\* on it, and render again while an effect has queued another update.
RECURSIVE Settle(_, _)
Settle(prev, s) ==
  LET c == HostCommit(prev, s)
      e == SpinCompletionEffect(prev, OpacityEffect(prev, c))
  IN IF StateOf(e) = StateOf(c) THEN e ELSE Settle(c, e)

\* Writes a settled record back to the variables.
Commit(s) ==
  /\ currentTexture' = s.currentTexture
  /\ nextTexture' = s.nextTexture
  /\ isTransitioning' = s.isTransitioning
  /\ isSpinning' = s.isSpinning
  /\ currentOpacity' = s.currentOpacity
  /\ nextOpacity' = s.nextOpacity
  /\ finalized' = s.finalized

\* What the last step started from.
Snapshot == [isSpinning |-> isSpinning, isTransitioning |-> isTransitioning,
             currentTexture |-> currentTexture, nextTexture |-> nextTexture,
             spinProgress |-> spinProgress, spinStartRotation |-> spinStartRotation,
             baseRotation |-> baseRotation, transitionProgress |-> transitionProgress]

NothingWritten == [cur |-> NoWrite, next |-> NoWrite]

\* No loader callback ran in the last step.
NoLoad == [tex |-> Null, hadCurrent |-> FALSE, isSpinning |-> FALSE]

\* The mounted card, its base rotation being rotation.
CardStart(rotation) ==
  /\ generatedImage = Null /\ isGenerating = FALSE
  /\ currentTexture = Null /\ nextTexture = Null
  /\ isTransitioning = FALSE /\ isSpinning = FALSE
  /\ baseRotation = rotation /\ spinStartRotation = 0
  /\ spinProgress = 0 /\ transitionProgress = 0
  /\ currentOpacity = OpacityOne /\ nextOpacity = NoMesh
  /\ loads = {} /\ requests = 0
  /\ event = "mount" /\ finalized = FALSE
  /\ frameWrote = NothingWritten
  /\ before = Snapshot
  /\ arrived = NoLoad

\* useEffect []: baseRotation.current = 0
CardInit == CardStart(0)

\* The rotations the normalization is checked on: up to MaxTurns turns
\* either way.
Rotations == (0 - MaxTurns * TwoPi)..(MaxTurns * TwoPi)

\* Math.max(0, Math.min((spinProgress - crossfadeStart) / (1 - crossfadeStart), 1))
\* as a numerator over OpacityOne.
CrossfadeProgressUnclamped(sp) ==
  CrossfadeStartDen * sp - CrossfadeStartNum * ProgressOne

CrossfadeProgress(sp) ==
  Max(0, Min(CrossfadeStartDen * sp - CrossfadeStartNum * ProgressOne, OpacityOne))

\* normalizedRotation = ((r % 2pi) + 2pi) % 2pi
WrapTurnNoWrap(r) == JsRem(r, TwoPi)

WrapTurn(r) == JsRem(JsRem(r, TwoPi) + TwoPi, TwoPi)

\* normalizedRotation > pi ? normalizedRotation - 2pi : normalizedRotation
NormalizeRotationInclusive(r) ==
  LET n == WrapTurn(r)
  IN IF n >= AnglePerPi THEN n - TwoPi ELSE n

NormalizeRotation(r) ==
  LET n == WrapTurn(r)
  IN IF n > AnglePerPi THEN n - TwoPi ELSE n

\* baseRotation.current after a frame: written only inside
\* if (spinProgress.current >= 1.0), from spinStartRotation + 2pi.
RotationAfterFrameAlways(completes) ==
  NormalizeRotation(spinStartRotation + TwoPi)

RotationAfterFrame(completes) ==
  IF completes THEN NormalizeRotation(spinStartRotation + TwoPi)
  ELSE baseRotation

\* Which arm of the crossfade step of useFrame runs.
CrossfadeBranch ==
  IF ~(isTransitioning /\ nextTexture # Null /\ nextOpacity # NoMesh) THEN "none"
  ELSE IF isSpinning THEN "spin"
  ELSE IF ~isSpinning /\ nextTexture # Null THEN "immediate"
  ELSE "timed"

\* The state queued by "setCurrentTexture(nextTexture); setNextTexture(null);
\* setIsTransitioning(false)".
Promote(s) ==
  [s EXCEPT !.currentTexture = s.nextTexture, !.nextTexture = Null,
            !.isTransitioning = FALSE, !.finalized = TRUE]

\* useFrame((state, delta) => ...) of PFPCard.
CardFrame(delta) ==
  LET advanced == Min(spinProgress + delta * SpinSpeedNum, ProgressOne)
      completes == isSpinning /\ advanced >= ProgressOne
      sp == IF ~isSpinning THEN spinProgress
            ELSE IF completes THEN 0 ELSE advanced
      branch == CrossfadeBranch
      tpRaw == transitionProgress + delta * TransitionSpeed * SpinSpeedDen
      tp == IF branch # "timed" THEN transitionProgress
            ELSE IF tpRaw >= ProgressOne THEN ProgressOne ELSE tpRaw
      timedOpacity == Min(tp, ProgressOne) * (CrossfadeStartDen - CrossfadeStartNum)
      cp == CrossfadeProgress(sp)
      \* opacities written by the crossfade step
      w1 == IF branch = "spin" THEN [cur |-> OpacityOne - cp, next |-> cp]
            ELSE IF branch = "timed"
                 THEN [cur |-> OpacityOne - timedOpacity, next |-> timedOpacity]
            ELSE NothingWritten
      \* opacities written by the "not in active transition" step
      w2 == IF isTransitioning THEN w1
            ELSE [cur |-> OpacityOne,
                  next |-> IF nextOpacity # NoMesh THEN 0 ELSE w1.next]
      promotes == \/ branch = "immediate"
                  \/ branch = "timed" /\ tpRaw >= ProgressOne /\ nextTexture # Null
      s0 == [Rendered EXCEPT
               !.currentOpacity = IF w2.cur # NoWrite THEN w2.cur ELSE @,
               !.nextOpacity = IF w2.next # NoWrite THEN w2.next ELSE @,
               !.isSpinning = IF completes THEN FALSE ELSE @]
      s1 == IF promotes THEN Promote(s0) ELSE s0
  IN /\ spinProgress' = sp
     /\ baseRotation' = RotationAfterFrame(completes)
     /\ transitionProgress' = tp
     /\ frameWrote' = w2
     /\ Commit(Settle(Rendered, s1))
     /\ event' = "frame"
     /\ before' = Snapshot
     /\ arrived' = NoLoad
     /\ UNCHANGED <<generatedImage, isGenerating, spinStartRotation, loads, requests>>

\* The success callback of loader.load: it sees currentTexture and isSpinning
\* of the render in which the load was requested.
TextureLoadedNoFlag(l, s) ==
  IF l.hadCurrent
  THEN [s EXCEPT !.nextTexture = l.tex]
  ELSE [s EXCEPT !.currentTexture = l.tex]

TextureLoaded(l, s) ==
  IF l.hadCurrent
  THEN [s EXCEPT !.nextTexture = l.tex, !.isTransitioning = TRUE]
  ELSE [s EXCEPT !.currentTexture = l.tex]

LoadCompletes(l) ==
  /\ l \in loads
  /\ loads' = loads \ {l}
  /\ transitionProgress' = IF l.hadCurrent THEN 0 ELSE transitionProgress
  /\ Commit(Settle(Rendered, TextureLoaded(l, Rendered)))
  /\ event' = "loaded"
  /\ before' = Snapshot
  /\ arrived' = l
  /\ frameWrote' = NothingWritten
  /\ UNCHANGED <<generatedImage, isGenerating, baseRotation, spinStartRotation,
                 spinProgress, requests>>

\* The error callback of loader.load only logs.
LoadFailsClearing(l) ==
  /\ l \in loads
  /\ loads' = loads \ {l}
  /\ event' = "loadError"
  /\ before' = Snapshot
  /\ arrived' = NoLoad
  /\ frameWrote' = NothingWritten
  /\ Commit(Settle(Rendered, [Rendered EXCEPT !.currentTexture = Null,
                                               !.nextTexture = Null,
                                               !.isTransitioning = FALSE]))
  /\ UNCHANGED <<generatedImage, isGenerating, baseRotation, spinStartRotation,
                 spinProgress, transitionProgress, requests>>

LoadFails(l) ==
  /\ l \in loads
  /\ loads' = loads \ {l}
  /\ event' = "loadError"
  /\ before' = Snapshot
  /\ arrived' = NoLoad
  /\ frameWrote' = NothingWritten
  /\ finalized' = FALSE
  /\ UNCHANGED <<generatedImage, isGenerating, currentTexture, nextTexture,
                 isTransitioning, isSpinning, baseRotation, spinStartRotation,
                 spinProgress, transitionProgress, currentOpacity, nextOpacity,
                 requests>>

\* useEffect [generatedImage]: the state it queues when the image is cleared.
TextureLoadEffect(img, s) ==
  IF img # generatedImage /\ img = Null
  THEN [s EXCEPT !.currentTexture = Null, !.nextTexture = Null,
                 !.isTransitioning = FALSE]
  ELSE s

\* useEffect [isGenerating]: "Handle generation start - trigger 360 rotation".
GenerationStartEffectFollowing(gen, s) ==
  IF gen # isGenerating
  THEN [s EXCEPT !.isSpinning = gen]
  ELSE s

GenerationStartEffect(gen, s) ==
  IF gen # isGenerating /\ gen
  THEN [s EXCEPT !.isSpinning = TRUE]
  ELSE s

\* The parent renders PFPCard with new props.
PropsChange(img, gen) ==
  /\ <<img, gen>> # <<generatedImage, isGenerating>>
  /\ generatedImage' = img
  /\ isGenerating' = gen
  /\ IF img # generatedImage /\ img # Null
     THEN /\ requests' = requests + 1
          /\ loads' = loads \cup {[tex |-> img, hadCurrent |-> currentTexture # Null,
                                   isSpinning |-> isSpinning]}
     ELSE UNCHANGED <<requests, loads>>
  /\ IF gen # isGenerating /\ gen
     THEN spinStartRotation' = baseRotation /\ spinProgress' = 0
     ELSE UNCHANGED <<spinStartRotation, spinProgress>>
  /\ Commit(Settle(Rendered, GenerationStartEffect(gen, TextureLoadEffect(img, Rendered))))
  /\ before' = Snapshot
  /\ arrived' = NoLoad
  /\ frameWrote' = NothingWritten
  /\ UNCHANGED <<baseRotation, transitionProgress>>

\* setIsGenerating(true) / setIsGenerating(false)
SetIsGenerating ==
  /\ PropsChange(generatedImage, ~isGenerating)
  /\ event' = "isGenerating"

\* setGeneratedImage(dataURL) with a new image
SetGeneratedImage ==
  /\ requests < MaxLoads
  /\ PropsChange(requests + 1, isGenerating)
  /\ event' = "generatedImage"

\* generatedImage = null
ClearGeneratedImage ==
  /\ generatedImage # Null
  /\ PropsChange(Null, isGenerating)
  /\ event' = "imageCleared"

\* setGeneratedImage(dataURL); setIsGenerating(false) at the end of generatePFP
GenerationDone ==
  /\ isGenerating
  /\ requests < MaxLoads
  /\ PropsChange(requests + 1, FALSE)
  /\ event' = "generationDone"

\* ----------------------------------------------------- FloatingParticles

\* transactionEffect is null/undefined, or an object {type, isActive}.
NoEffect == [type |-> "null", isActive |-> FALSE]
TransactionEffects == {NoEffect} \cup [type : {"buy", "sell"}, isActive : BOOLEAN]

\* effectConfig.burstDuration in ticks; 0 stands for a missing setting.
ConfigDurations == {0, TicksPerSecond}

\* life is a numerator over LifeOne; a frame of delta ticks takes
\* delta / maxLife seconds of life away.
LifeOne == TicksPerSecond * 40
LifeStep(delta, maxLifeTenths) == (delta * 10 * 40) \div maxLifeTenths

\* Positions and velocities of burst particles are kept exactly.  Every
\* particle starts at (0, -2, 0) with its own random velocity v0, and the
\* physics is linear in v0: a velocity is initial x v0 + (gravity /
\* TicksPerSecond) x (0, 1, 0), a position is (0, -2, 0) + (initial /
\* TicksPerSecond) x v0 + (gravity / TicksPerSecond^2) x (0, 1, 0).  initial
\* and gravity are polynomials in the drag factor 0.98 with integer
\* coefficients: the sequence <<c0, c1, ...>> stands for c0 + c1 x 0.98 + ...
PolyAdd(p, q) ==
  [k \in 1..Max(Len(p), Len(q)) |->
     (IF k <= Len(p) THEN p[k] ELSE 0) + (IF k <= Len(q) THEN q[k] ELSE 0)]

PolyScale(c, p) == [k \in 1..Len(p) |-> c * p[k]]

\* multiplyScalar(0.98)
AirResistance(p) == <<0>> \o p

Launched == [initial |-> <<1>>, gravity |-> <<0>>]
AtRest == [initial |-> <<0>>, gravity |-> <<0>>]

\* The physics and life update of one burst particle in a frame of delta ticks.
IntegrateOldVelocity(particle, delta) ==
  LET fallen == [particle.velocity EXCEPT
                   !.gravity = PolyAdd(@, <<0 - 2 * delta>>)]
      slowed == [initial |-> AirResistance(fallen.initial),
                 gravity |-> AirResistance(fallen.gravity)]
  IN [position |->
        [initial |-> PolyAdd(particle.position.initial,
                             PolyScale(delta, particle.velocity.initial)),
         gravity |-> PolyAdd(particle.position.gravity,
                             PolyScale(delta, particle.velocity.gravity))],
      velocity |-> slowed,
      life |-> particle.life - LifeStep(delta, particle.maxLife),
      maxLife |-> particle.maxLife]

Integrate(particle, delta) ==
  LET fallen == [particle.velocity EXCEPT
                   !.gravity = PolyAdd(@, <<0 - 2 * delta>>)]
      slowed == [initial |-> AirResistance(fallen.initial),
                 gravity |-> AirResistance(fallen.gravity)]
  IN [position |->
        [initial |-> PolyAdd(particle.position.initial,
                             PolyScale(delta, slowed.initial)),
         gravity |-> PolyAdd(particle.position.gravity,
                             PolyScale(delta, slowed.gravity))],
      velocity |-> slowed,
      life |-> particle.life - LifeStep(delta, particle.maxLife),
      maxLife |-> particle.maxLife]

\* The burstParticles array is kept as the bag of its elements: the frame
\* treats every element alike, whatever its index.  Pushed(list) is the array
\* after pushing the elements of list.
Pushed(list) ==
  [p \in {list[i] : i \in DOMAIN list} |->
     Cardinality({i \in DOMAIN list : list[i] = p})]

\* The particles created by the burst init effect; the random maxLife of
\* particle i is drawn through seed.
MaxLifeSeeds == {0}
NewBurstParticlesInclusive(seed) ==
  Pushed([i \in 0..numBurstParticles |->
            [position |-> AtRest,
             velocity |-> Launched,
             life |-> LifeOne,
             maxLife |-> IF (i + seed) % 2 = 0 THEN 8 ELSE 10]])

NewBurstParticles(seed) ==
  Pushed([i \in 1..numBurstParticles |->
            [position |-> AtRest,
             velocity |-> Launched,
             life |-> LifeOne,
             maxLife |-> IF (i + seed) % 2 = 0 THEN 8 ELSE 10]])

IdleBurst == [isActive |-> FALSE, startTime |-> 0, type |-> "null",
              burstParticles |-> EmptyBag]

\* PARTICLE_LIFETIME of FloatingParticles, in seconds and in ticks.
PARTICLE_LIFETIME == 4
ParticleLifetime == PARTICLE_LIFETIME * TicksPerSecond

\* function fmod(a,b){return ((a % b)+b)%b;}
FmodNoWrap(a, b) == JsRem(a, b)

Fmod(a, b) == JsRem(JsRem(a, b) + b, b)

\* sourceGeom is missing (null, or without a position attribute), or it is
\* the sequence of its vertices.  Lengths are counted in thirds of 1e-6, so
\* that the guard distance 1e-6 is Epsilon units.
NoGeom == <<>>
Avatar == << <<0, 0, 0>>, <<3, 4, 0>> >>
SourceGeoms == {NoGeom, Avatar}
Epsilon == 3

\* forcefield inputs of a frame: localMouse, forcefieldConfig.radius,
\* currentStrength.current, and the values of the four sine noise layers
LocalMice == { <<0, 0, 0>>, <<3, 0, 0>>, <<3, 4, 0>> }
Radii == {0, 5, 20}
Strengths == {0, 2}
Noises == { <<1, 1, 1, 1>>, <<1, 0, 0, 1>>, <<0, 0, 0, 0>> }
AllocationSeeds == 0..1
RespawnStrength == CHOOSE s \in Strengths : s > 0

\* A position is a vector of numerators over one denominator.
RECURSIVE Gcd(_, _)
Gcd(a, b) == IF b = 0 THEN a ELSE Gcd(b, a % b)

Abs(a) == IF a < 0 THEN 0 - a ELSE a

At(o) == [v |-> o, den |-> 1]

Reduce(p) ==
  LET g == Gcd(Gcd(Abs(p.v[1]), Abs(p.v[2])), Gcd(Abs(p.v[3]), Abs(p.den)))
  IN IF p.den = 0 \/ g = 0 THEN p
     ELSE [v |-> <<p.v[1] \div g, p.v[2] \div g, p.v[3] \div g>>,
           den |-> p.den \div g]

\* Math.sqrt of a perfect square
Sqrt(n) == CHOOSE r \in 0..n : r * r = n

\* Math.sqrt(dx*dx + dy*dy + dz*dz)
Dist(o, m) ==
  Sqrt((o[1] - m[1]) * (o[1] - m[1]) + (o[2] - m[2]) * (o[2] - m[2])
       + (o[3] - m[3]) * (o[3] - m[3]))

\* useMemo [sourceGeom]: lifetimes[i] = Math.random() * PARTICLE_LIFETIME, the
\* random number of particle i drawn through seed
AllocLifetimes(g, seed) ==
  [i \in 1..Len(g) |-> (i + 8 * seed) % ParticleLifetime]

\* initialPositions = new Float32Array(sourcePositions)
InitialPositions(g) == [i \in 1..Len(g) |-> At(g[i])]

\* originalPositions: new Float32Array(sourcePositions), a second copy of the
\* vertices, kept apart from the position attribute
OriginalPositions(g) == [i \in 1..Len(g) |-> g[i]]

\* velocities in hundredths: x and y are (Math.random() - 0.5) * 0.2 and z is
\* Math.random() * PARTICLE_SPEED + 0.2, the random numbers of particle i
\* drawn through seed
AllocVelocities(g, seed) ==
  [i \in 1..Len(g) |->
     <<(((i + seed) % 3) - 1) * 9, (((i + 2 * seed) % 3) - 1) * 9,
       20 + 10 * ((i + seed) % 3)>>]

NoForcefield == [localMouse |-> <<0, 0, 0>>, radius |-> 0, strengthBase |-> 0]

LifeInit ==
  /\ sourceGeom = Avatar
  /\ lifetimes = AllocLifetimes(Avatar, 1)
  /\ positions = InitialPositions(Avatar)
  /\ originalPositions = OriginalPositions(Avatar)
  /\ velocities = AllocVelocities(Avatar, 1)
  /\ previousPositions = InitialPositions(Avatar)
  /\ frameSteps = <<>>
  /\ forcefield = NoForcefield
  /\ ages = <<>>
  /\ respawned = {}
  /\ divisions = {}

\* The parent passes another sourceGeom: useMemo allocates the particle data
\* anew.  Without geometry the component renders null and the material
\* (materialRef.current) is unmounted; with geometry a material is mounted
\* with the uniforms of the JSX.  The refs keep their values.
SetSourceGeom(g, seed) ==
  /\ g # sourceGeom
  /\ sourceGeom' = g
  /\ lifetimes' = AllocLifetimes(g, seed)
  /\ positions' = InitialPositions(g)
  /\ originalPositions' = OriginalPositions(g)
  /\ velocities' = AllocVelocities(g, seed)
  /\ previousPositions' = InitialPositions(g)
  /\ uTime' = IF g = NoGeom THEN uTime ELSE 0
  /\ uTransactionType' = IF g = NoGeom THEN uTransactionType ELSE 0
  /\ uTransactionIntensity' =
       IF g = NoGeom THEN uTransactionIntensity ELSE [num |-> 0, den |-> 1]
  /\ burstEvent' = "geometry"
  /\ UNCHANGED <<frameSteps, forcefield, ages, respawned, divisions>>
  /\ UNCHANGED <<transactionEffect, effectConfig, burstState, lastTime, dateNow,
                 clockTime>>

BurstInit ==
  /\ transactionEffect = NoEffect
  /\ effectConfig = 0
  /\ burstState = IdleBurst
  /\ lastTime = 0
  /\ dateNow = EpochTicks
  /\ clockTime = 0
  /\ uTime = 0
  /\ uTransactionType = 0
  /\ uTransactionIntensity = [num |-> 0, den |-> 1]
  /\ burstEvent = "mount"

\* useEffect [transactionEffect]: "Initialize burst effect when transaction starts".
BurstInitEffectAlways(t, seed) ==
  IF t # NoEffect /\ t.isActive
  THEN [isActive |-> TRUE, startTime |-> dateNow, type |-> t.type,
        burstParticles |-> NewBurstParticles(seed)]
  ELSE burstState

BurstInitEffect(t, seed) ==
  IF t # NoEffect /\ t.isActive /\ ~burstState.isActive
  THEN [isActive |-> TRUE, startTime |-> dateNow, type |-> t.type,
        burstParticles |-> NewBurstParticles(seed)]
  ELSE burstState

\* The parent passes a new transactionEffect object; the effect runs.
SetTransactionEffect(t, seed) ==
  /\ transactionEffect' = t
  /\ burstState' = BurstInitEffect(t, seed)
  /\ burstEvent' = IF ~(t # NoEffect /\ t.isActive) THEN "inactive"
                   ELSE IF burstState.isActive THEN "ignored" ELSE "started"
  /\ UNCHANGED <<effectConfig, lastTime, dateNow, clockTime, uTime,
                 uTransactionType, uTransactionIntensity>>

\* The parent passes another effectConfig.
SetEffectConfig(c) ==
  /\ c # effectConfig
  /\ effectConfig' = c
  /\ burstEvent' = "config"
  /\ UNCHANGED <<transactionEffect, burstState, lastTime, dateNow, clockTime,
                 uTime, uTransactionType, uTransactionIntensity>>

\* Time passes between two handlers.
TimePasses(d, limit) ==
  /\ clockTime + d <= limit
  /\ clockTime' = clockTime + d
  /\ dateNow' = dateNow + d
  /\ burstEvent' = "time"
  /\ UNCHANGED <<transactionEffect, effectConfig, burstState, lastTime, uTime,
                 uTransactionType, uTransactionIntensity>>

\* effectConfig?.burstDuration || 1.5, in ticks
BurstDuration ==
  IF effectConfig = 0
  THEN (BurstDurationNum * TicksPerSecond) \div BurstDurationDen
  ELSE effectConfig

\* The burst step of useFrame of FloatingParticles.
BurstStepInclusive(delta) ==
  LET burstElapsed == dateNow - burstState.startTime
  IN IF ~burstState.isActive THEN burstState
     ELSE IF burstElapsed <= BurstDuration
     THEN [burstState EXCEPT !.burstParticles =
             BagOfAll(LAMBDA particle : Integrate(particle, delta), @)]
     ELSE [burstState EXCEPT !.isActive = FALSE, !.burstParticles = EmptyBag]

BurstStep(delta) ==
  LET burstElapsed == dateNow - burstState.startTime
  IN IF ~burstState.isActive THEN burstState
     ELSE IF burstElapsed < BurstDuration
     THEN [burstState EXCEPT !.burstParticles =
             BagOfAll(LAMBDA particle : Integrate(particle, delta), @)]
     ELSE [burstState EXCEPT !.isActive = FALSE, !.burstParticles = EmptyBag]

\* if (dist < radius && dist > 1e-6): the two conditions of the guard
WithinRadiusAlways(dist, radius) == dist >= 0

WithinRadius(dist, radius) == dist < radius

BeyondEpsilonAlways(dist) == dist >= 0

BeyondEpsilon(dist) == dist > Epsilon

InForcefield(dist, radius) == WithinRadius(dist, radius) /\ BeyondEpsilon(dist)

\* combinedNoise in tenths: the layers weigh 0.4, 0.3, 0.2 and 0.1
CombinedNoiseOverweight(layers) ==
  4 * layers[1] + 3 * layers[2] + 2 * layers[3] + 2 * layers[4]

CombinedNoise(layers) ==
  4 * layers[1] + 3 * layers[2] + 2 * layers[3] + layers[4]

\* randomFactor = combinedNoise * 0.7 + 0.3, in hundredths
RandomFactorUnscaled(layers) == 70 * CombinedNoise(layers) + 300

RandomFactor(layers) == 7 * CombinedNoise(layers) + 30

\* The position a respawning particle with base position o is seeded at:
\* force = (1 - dist/radius)^2, displacement = strengthBase*force*randomFactor,
\* n = o + d * (1/dist) * displacement.
Displace(o, localMouse, radius, strengthBase, layers) ==
  LET dist == Dist(o, localMouse)
      num == strengthBase * (radius - dist) * (radius - dist) * RandomFactor(layers)
      den == radius * radius * 100 * dist
  IN IF InForcefield(dist, radius)
     THEN Reduce([v |-> <<o[1] * den + (o[1] - localMouse[1]) * num,
                          o[2] * den + (o[2] - localMouse[2]) * num,
                          o[3] * den + (o[3] - localMouse[3]) * num>>,
                  den |-> den])
     ELSE At(o)

\* The noise layers particle i reads in a frame whose noise input is noise.
LayersOf(noise, i) == [k \in 1..4 |-> noise[((k + i) % 4) + 1]]

\* The number of frames that have integrated the particles of the burst:
\* each of them multiplied the velocity by 0.98 once.
BurstFrames ==
  IF burstState.burstParticles = EmptyBag THEN 0
  ELSE LET particle == CHOOSE p \in BagToSet(burstState.burstParticles) : TRUE
       IN Len(particle.velocity.initial) - 1

\* if (!materialRef.current) return;  the material is mounted with the
\* particle data (line 314).
MaterialMountedAlways == TRUE

MaterialMounted == sourceGeom # NoGeom

\* The seed of a respawning particle i: nx, ny, nz start from ox, oy, oz, the
\* entries of originalPositions, whatever the position attribute holds.
RespawnSeedCumulative(i, localMouse, radius, strengthBase, layers) ==
  IF InForcefield(Dist(originalPositions[i], localMouse), radius)
  THEN Displace(originalPositions[i], localMouse, radius, strengthBase, layers)
  ELSE positions[i]

RespawnSeed(i, localMouse, radius, strengthBase, layers) ==
  Displace(originalPositions[i], localMouse, radius, strengthBase, layers)

\* if (age < delta): the particle has just respawned this frame
JustRespawnedInclusive(age, delta) == age <= delta

JustRespawned(age, delta) == age < delta

\* useFrame((state) => ...) of FloatingParticles, lines 197-309.  Without a
\* mounted material the callback returns at once.  Two frames never share a
\* clock reading, hence delta > 0.
ParticlesFrame(localMouse, radius, strengthBase, noise) ==
  LET globalTime == clockTime
      delta == globalTime - lastTime
      burstElapsed == dateNow - burstState.startTime
      running == burstState.isActive /\ burstElapsed < BurstDuration
      age == [i \in 1..Len(lifetimes) |->
                Fmod(globalTime - lifetimes[i], ParticleLifetime)]
      born == {i \in 1..Len(lifetimes) : JustRespawned(age[i], delta)}
  IN /\ delta > 0
     /\ (MaterialMounted /\ running) => BurstFrames < MaxBurstFrames
     /\ UNCHANGED <<transactionEffect, effectConfig, dateNow, clockTime,
                    sourceGeom, lifetimes, originalPositions, velocities>>
     /\ IF ~MaterialMounted
        THEN /\ burstEvent' = "skipped"
             /\ frameSteps' = <<>>
             /\ UNCHANGED <<burstState, lastTime, uTime, uTransactionType,
                            uTransactionIntensity, positions, forcefield,
                            ages, respawned, divisions, previousPositions>>
        ELSE /\ lastTime' = globalTime
             /\ uTime' = globalTime
             /\ burstState' = BurstStep(delta)
             /\ uTransactionType' =
                  IF ~running THEN uTransactionType
                  ELSE IF burstState.type = "buy" THEN 1
                  ELSE IF burstState.type = "sell" THEN 2 ELSE 0
             /\ uTransactionIntensity' =
                  IF ~running THEN uTransactionIntensity
                  ELSE [num |-> Max(0, BurstDuration - burstElapsed),
                        den |-> BurstDuration]
             /\ burstEvent' =
                  IF burstState.isActive /\ ~running THEN "ended" ELSE "frame"
             /\ positions' =
                  [i \in 1..Len(positions) |->
                     IF i \in born
                     THEN RespawnSeed(i, localMouse, radius, strengthBase,
                                      LayersOf(noise, i))
                     ELSE positions[i]]
             /\ previousPositions' = positions
             /\ frameSteps' =
                  <<"time">>
                  \o (IF burstState.isActive THEN <<"burst">> ELSE <<>>)
                  \o <<"respawn">>
                  \o (IF born # {} THEN <<"displacement">> ELSE <<>>)
             /\ forcefield' = [localMouse |-> localMouse, radius |-> radius,
                               strengthBase |-> strengthBase]
             /\ ages' = age
             /\ respawned' = born
             /\ divisions' =
                  {Dist(originalPositions[i], localMouse) : i \in
                     {j \in born :
                        InForcefield(Dist(originalPositions[j], localMouse),
                                     radius)}}

\* --------------------------------------------------------- ParticleFrame

\* PARTICLE_LIFETIME of ParticleFrame, in seconds and in ticks.
FRAME_PARTICLE_LIFETIME == 6
FrameLifetime == FRAME_PARTICLE_LIFETIME * TicksPerSecond

\* generateFrameGeometry: lifetimes[i] = Math.random() * PARTICLE_LIFETIME
FrameAllocLifetimes(seed) ==
  [i \in 1..numParticles |-> (i + 11 * seed) % FrameLifetime]

\* A position of the frame swarm: the original position of the particle and
\* the width, in hundredths, of the random offset added to each coordinate.
FrameOriginal(i) == [original |-> i, spread |-> 0]

\* The material mounted by the JSX of ParticleFrame is a <pointsMaterial>,
\* which has no uniforms object.
MaterialWithUniforms == TRUE

MaterialHasUniforms == FALSE

SwarmInit ==
  /\ frameLifetimes = FrameAllocLifetimes(0)
  /\ framePositions = [i \in 1..numParticles |-> FrameOriginal(i)]
  /\ wasBursting = FALSE
  /\ burstTime = 0
  /\ frameTime = 0
  /\ previousFrameTime = 0
  /\ frameOutcome = "mount"
  /\ frameRespawned = {}

\* useEffect [isGenerating]: "Trigger burst when generation starts".
BurstLatchEffectNoClear(gen) ==
  /\ wasBursting' = IF gen /\ ~wasBursting THEN TRUE ELSE wasBursting
  /\ burstTime' = IF gen /\ ~wasBursting THEN dateNow ELSE burstTime
  /\ frameOutcome' = "isGenerating"
  /\ UNCHANGED <<frameLifetimes, framePositions, frameTime, previousFrameTime,
                 frameRespawned>>

BurstLatchEffect(gen) ==
  /\ wasBursting' = IF gen /\ ~wasBursting THEN TRUE
                    ELSE IF ~gen THEN FALSE ELSE wasBursting
  /\ burstTime' = IF gen /\ ~wasBursting THEN dateNow ELSE burstTime
  /\ frameOutcome' = "isGenerating"
  /\ UNCHANGED <<frameLifetimes, framePositions, frameTime, previousFrameTime,
                 frameRespawned>>

\* useFrame((state) => ...) of ParticleFrame, for a mounted swarm and card.
\* The first statement after the guard reads materialRef.current.uniforms.uTime
\* and throws when the material has no uniforms; the callback then ends.
\* Otherwise the respawn pass compares each age with state.clock.getDelta(),
\* the time since getElapsedTime() was called a few statements before: zero,
\* or a positive time below any tick (elapsed).
ParticleFrameCallback(elapsed) ==
  LET globalTime == clockTime
      age == [i \in 1..numParticles |->
                Fmod(globalTime - frameLifetimes[i], FrameLifetime)]
      born == {i \in 1..numParticles : elapsed /\ age[i] = 0}
      burst == isGenerating /\ wasBursting
  IN /\ globalTime # frameTime
     /\ frameTime' = globalTime
     /\ previousFrameTime' = frameTime
     /\ UNCHANGED <<wasBursting, burstTime>>
     /\ IF ~MaterialHasUniforms
        THEN /\ frameOutcome' = "TypeError"
             /\ frameRespawned' = {}
             /\ UNCHANGED <<frameLifetimes, framePositions>>
        ELSE /\ frameOutcome' = "returned"
             /\ frameRespawned' = born
             /\ framePositions' =
                  [i \in 1..numParticles |->
                     IF i \notin born \/ (isGenerating /\ ~wasBursting)
                     THEN framePositions[i]
                     ELSE [original |-> i, spread |-> IF burst THEN 10 ELSE 5]]
             /\ frameLifetimes' =
                  [i \in 1..numParticles |->
                     IF i \in born /\ burst THEN globalTime
                     ELSE frameLifetimes[i]]

\* ------------------------------------------------------- specifications

particleVars == <<burstVars, lifeVars>>

Frame ==
  \E delta \in Deltas : CardFrame(delta) /\ UNCHANGED <<particleVars, swarmVars>>
Loaded ==
  \E l \in loads : LoadCompletes(l) /\ UNCHANGED <<particleVars, swarmVars>>
LoadError ==
  \E l \in loads : LoadFails(l) /\ UNCHANGED <<particleVars, swarmVars>>
Generating == SetIsGenerating /\ UNCHANGED <<particleVars, swarmVars>>
NewImage == SetGeneratedImage /\ UNCHANGED <<particleVars, swarmVars>>
NoImage == ClearGeneratedImage /\ UNCHANGED <<particleVars, swarmVars>>
Generated == GenerationDone /\ UNCHANGED <<particleVars, swarmVars>>

Trigger ==
  \E t \in TransactionEffects, seed \in MaxLifeSeeds :
    SetTransactionEffect(t, seed) /\ UNCHANGED <<cardVars, lifeVars, swarmVars>>
Configure ==
  \E c \in ConfigDurations :
    SetEffectConfig(c) /\ UNCHANGED <<cardVars, lifeVars, swarmVars>>
Time ==
  \E d \in Deltas :
    TimePasses(d, MaxTime) /\ UNCHANGED <<cardVars, lifeVars, swarmVars>>
\* a frame of a swarm whose forcefield is switched off (radius 0)
BurstFrame ==
  /\ ParticlesFrame(<<0, 0, 0>>, 0, 0, <<0, 0, 0, 0>>)
  /\ UNCHANGED <<cardVars, swarmVars>>
BurstGeometry ==
  \E g \in SourceGeoms : SetSourceGeom(g, 1) /\ UNCHANGED <<cardVars, swarmVars>>

LifeTime ==
  \E d \in Deltas :
    TimePasses(d, MaxLifeTime) /\ UNCHANGED <<cardVars, lifeVars, swarmVars>>
RespawnTime ==
  \E d \in Deltas :
    /\ TimePasses(d, ParticleLifetime + MaxLifeTime)
    /\ UNCHANGED <<cardVars, lifeVars, swarmVars>>
RespawnFrame ==
  \E radius \in Radii \ {0}, noise \in Noises :
    /\ ParticlesFrame(<<0, 0, 0>>, radius, RespawnStrength, noise)
    /\ UNCHANGED <<cardVars, swarmVars>>
RespawnGeometry ==
  \E g \in SourceGeoms : SetSourceGeom(g, 0) /\ UNCHANGED <<cardVars, swarmVars>>
LifeFrame ==
  \E localMouse \in LocalMice, radius \in Radii, strengthBase \in Strengths,
     noise \in Noises :
    /\ ParticlesFrame(localMouse, radius, strengthBase, noise)
    /\ UNCHANGED <<cardVars, swarmVars>>
Geometry ==
  \E g \in SourceGeoms, seed \in AllocationSeeds :
    SetSourceGeom(g, seed) /\ UNCHANGED <<cardVars, swarmVars>>

\* setIsGenerating of App: PFPCard and ParticleFrame receive the same prop
SwarmGenerating ==
  /\ SetIsGenerating
  /\ BurstLatchEffect(~isGenerating)
  /\ UNCHANGED particleVars
SwarmTime ==
  \E d \in Deltas :
    TimePasses(d, FrameLifetime + FrameOvertime) /\ UNCHANGED <<cardVars, lifeVars, swarmVars>>
SwarmFrame ==
  \E elapsed \in BOOLEAN :
    ParticleFrameCallback(elapsed) /\ UNCHANGED <<cardVars, particleVars>>

Init == CardInit /\ BurstInit /\ LifeInit /\ SwarmInit

\* PFPCard
Next ==
  \/ Frame
  \/ Loaded
  \/ LoadError
  \/ Generating
  \/ NewImage
  \/ NoImage
  \/ Generated

Spec == Init /\ [][Next]_vars

\* Frames keep occurring: the render loop calls useFrame on every frame.
FairSpec == Spec /\ WF_vars(Frame)

\* PFPCard, started from any base rotation: the normalization of a completed
\* spin applied to positive, negative and several turns large rotations
RotationInit ==
  /\ \E rotation \in Rotations : CardStart(rotation)
  /\ BurstInit /\ LifeInit /\ SwarmInit

RotationSpec == RotationInit /\ [][Next]_vars

\* FloatingParticles: the transaction burst
BurstNext ==
  \/ Trigger
  \/ Configure
  \/ Time
  \/ BurstFrame
  \/ BurstGeometry

BurstSpec == Init /\ [][BurstNext]_vars

\* FloatingParticles: respawn and forcefield displacement, no transaction
LifeNext ==
  \/ LifeTime
  \/ LifeFrame
  \/ Geometry

LifeSpec == Init /\ [][LifeNext]_vars

\* FloatingParticles over more than one particle lifetime: particles respawn
\* a second time
RespawnNext ==
  \/ RespawnTime
  \/ RespawnFrame
  \/ RespawnGeometry

RespawnSpec == Init /\ [][RespawnNext]_vars

\* ParticleFrame
SwarmNext ==
  \/ SwarmGenerating
  \/ SwarmTime
  \/ SwarmFrame

SwarmSpec == Init /\ [][SwarmNext]_vars

TypeOK ==
  /\ spinProgress \in 0..ProgressOne
  /\ currentOpacity \in 0..OpacityOne
  /\ nextOpacity \in {NoMesh} \cup 0..OpacityOne
  /\ currentTexture \in 0..MaxLoads /\ nextTexture \in 0..MaxLoads

\* ------------------------------------------------------- claims: PFPCard

\* The crossfade progress that drives the two opacities while the card spins.
DrivingProgress == CrossfadeProgress(spinProgress)

\* The opacity the next slot contributes: an unmounted mesh contributes nothing.
NextSlotOpacity == IF nextOpacity = NoMesh THEN 0 ELSE nextOpacity

\* C1: once a spin has started and frames keep occurring, the spin
\* eventually completes and the card returns to Idle, whatever isGenerating
\* changes and texture arrivals happen in between.
C1_SpinEventuallyCompletes == isSpinning ~> ~isSpinning

\* C2: while the card is Spinning no external event aborts or restarts the
\* spin: from one state of a spin to the next, spinProgress never decreases
\* and spinStartRotation is unchanged.
C2_SpinNeverRestarts ==
  [][(isSpinning /\ isSpinning')
       => (spinProgress' >= spinProgress /\ spinStartRotation' = spinStartRotation)]_vars

\* C3: a texture transition is never finalized while the card is Spinning;
\* a transition pending during a spin is finalized only by the frame that
\* returns the card to Idle.
C3_NoFinalizeWhileSpinning ==
  finalized => (~isSpinning /\ (before.isSpinning => event = "frame"))

C3_Witness ==
  /\ finalized /\ ~isSpinning
  /\ before.isSpinning /\ before.isTransitioning
  /\ currentTexture = before.nextTexture

\* C4: a transition is finalized only when its progress has reached 1: the
\* last opacities written for it are currentOpacity = 0 and nextOpacity = 1.
C4_FinalizedAtFullProgress ==
  finalized => frameWrote = [cur |-> 0, next |-> OpacityOne]

\* C5: a transition requested while a current texture is set and the card is
\* not spinning is time-coupled: it starts at progress 0 and is not finalized
\* before the accumulated progress is >= 1.
C5_TimeCoupledRunsToOne ==
  (finalized /\ ~before.isSpinning) => transitionProgress >= ProgressOne

\* C6: in every frame in which a transition is in progress the opacities
\* written are currentOpacity = 1 - progress and nextOpacity = progress with
\* progress in [0,1], so they sum to 1.
C6_CrossfadeConservation ==
  (event = "frame" /\ before.isTransitioning) =>
     /\ frameWrote.next \in 0..OpacityOne
     /\ frameWrote.cur = OpacityOne - frameWrote.next
     /\ frameWrote.cur + frameWrote.next = OpacityOne

C6_Witness ==
  /\ event = "frame" /\ before.isTransitioning
  /\ frameWrote.next > 0 /\ frameWrote.next < OpacityOne
  /\ frameWrote.cur = OpacityOne - frameWrote.next

\* C7: whenever transitioning is false, nextTexture is null, and a frame run
\* in such a state leaves the current slot at opacity 1 and the next slot at
\* opacity 0.
C7_StableOpacity ==
  /\ ~isTransitioning => nextTexture = Null
  /\ (event = "frame" /\ ~before.isTransitioning) =>
        /\ before.nextTexture = Null
        /\ frameWrote.cur = OpacityOne
        /\ currentOpacity = OpacityOne
        /\ NextSlotOpacity = 0

C7_Witness ==
  /\ event = "frame" /\ ~before.isTransitioning /\ ~isTransitioning
  /\ currentTexture # Null /\ nextTexture = Null
  /\ frameWrote.cur = OpacityOne /\ currentOpacity = OpacityOne

\* C8: when a second new texture arrives while a transition is in progress,
\* nextTexture is replaced by it and the crossfade progress that drives the
\* opacities restarts from 0.
C8_SecondTextureRestartsProgress ==
  (event = "loaded" /\ arrived.hadCurrent /\ before.isTransitioning) =>
     (nextTexture = arrived.tex /\ isTransitioning /\ DrivingProgress = 0)

\* --------------------------------------------- claims: FloatingParticles

\* The steps in which the burst init effect ran.
TriggerEvents == {"started", "ignored", "inactive"}

\* C9: a transaction trigger arriving while a burst is active is ignored:
\* the burst's startTime, kind and particle list are unchanged; the trigger
\* is not queued: a burst becomes active only in the step of a trigger that
\* found the controller Idle, and an active burst is never replaced.
C9_TriggerWhileActiveIgnored ==
  [][/\ (burstState.isActive /\ burstEvent' \in TriggerEvents)
          => burstState' = burstState
     /\ (~burstState.isActive /\ burstState'.isActive)
          => burstEvent' = "started"
     /\ (burstState.isActive /\ burstState'.isActive)
          => /\ burstState'.startTime = burstState.startTime
             /\ burstState'.type = burstState.type
             /\ BagCardinality(burstState'.burstParticles)
                  = BagCardinality(burstState.burstParticles)]_vars

C9_Witness ==
  /\ burstEvent = "ignored"
  /\ burstState.isActive
  /\ transactionEffect.isActive
  /\ transactionEffect.type # burstState.type
  /\ dateNow > burstState.startTime
  /\ BagCardinality(burstState.burstParticles) = numBurstParticles

\* C10: a burst starts only on a rising edge of the trigger's isActive flag
\* (previous value false, current value true) while no burst is active.
C10_BurstOnlyOnRisingEdge ==
  [][(~burstState.isActive /\ burstState'.isActive)
       => (~transactionEffect.isActive /\ transactionEffect'.isActive)]_vars
\* ----------------------------------------------- claims: FloatingParticles

\* The time since the burst started, as the burst step computes it.
BurstElapsed == dateNow - burstState.startTime

\* The state is the one a frame callback of FloatingParticles has just left.
AfterParticlesFrame == burstEvent \in {"frame", "ended"}

C12_IntensityFollowsBurst ==
  /\ (burstEvent = "frame" /\ burstState.isActive)
       => uTransactionIntensity =
            [num |-> Max(0, BurstDuration - BurstElapsed), den |-> BurstDuration]
  /\ (burstEvent = "ended") => uTransactionIntensity.num = 0

\* C13: a burst does not stay active past its duration: after any frame
\* callback, run or skipped, an active burst has elapsed < burstDuration.
C13_BurstEndsOnceDue ==
  (burstEvent \in {"frame", "ended", "skipped"} /\ burstState.isActive)
    => BurstElapsed < BurstDuration

\* C20: within one frame the steps run in the order time latch, respawn
\* detection, displacement, burst physics: the time latch comes first and
\* the burst step never comes before the respawn pass.
C20_FrameStepOrder ==
  frameSteps # <<>> =>
    /\ frameSteps[1] = "time"
    /\ \A i, j \in DOMAIN frameSteps :
         (frameSteps[i] = "burst" /\ frameSteps[j] \in {"respawn", "displacement"})
           => j < i

\* C14: over a sequence of frames with increasing globalTime and bounded
\* delta the respawn condition age < delta misses no respawn boundary: a
\* particle whose boundary phaseOffset + k * lifetime lies between the clock
\* readings of two consecutive frame callbacks is respawned by the second.
C14_NoBoundaryMissed ==
  (frameOutcome \in {"TypeError", "returned"} /\ previousFrameTime > 0)
    => \A i \in 1..numParticles :
         (\E k \in 0..2 :
            /\ previousFrameTime < frameLifetimes[i] + k * FrameLifetime
            /\ frameLifetimes[i] + k * FrameLifetime <= frameTime)
           => i \in frameRespawned

\* C15: the age fmod(globalTime - phaseOffset, lifetime) computed by a frame
\* lies in [0, lifetime), also when globalTime < phaseOffset.
C15_AgeInRange ==
  \A i \in DOMAIN ages : ages[i] >= 0 /\ ages[i] < ParticleLifetime

C15_Witness ==
  /\ AfterParticlesFrame
  /\ \E i \in DOMAIN ages :
       /\ i \in DOMAIN lifetimes
       /\ lastTime < lifetimes[i]
       /\ ages[i] = ParticleLifetime - (lifetimes[i] - lastTime)

MouseDist(i) == Dist(sourceGeom[i], forcefield.localMouse)

\* The squared length of positions[i] - base, times the squared denominator.
OffsetSquared(i) ==
  LET p == positions[i]
      o == sourceGeom[i]
      d == [k \in 1..3 |-> p.v[k] - o[k] * p.den]
  IN d[1] * d[1] + d[2] * d[2] + d[3] * d[3]

\* C17: a particle that respawns at distance >= radius from the mouse is
\* seeded exactly at its base position.
C17_OutsideRadiusAtBase ==
  AfterParticlesFrame =>
    \A i \in respawned :
      MouseDist(i) >= forcefield.radius => positions[i] = At(sourceGeom[i])

C17_Witness ==
  /\ AfterParticlesFrame
  /\ forcefield.radius > 0 /\ forcefield.strengthBase > 0
  /\ \E i \in respawned :
       MouseDist(i) >= forcefield.radius /\ positions[i] = At(sourceGeom[i])

\* C18: with radius > 0 and strength >= 0 a respawned particle is seeded at
\* most strength away from its base position.
C18_DisplacementBounded ==
  AfterParticlesFrame =>
    \A i \in respawned :
      forcefield.radius > 0 =>
        /\ positions[i].den > 0
        /\ OffsetSquared(i) <=
             forcefield.strengthBase * forcefield.strengthBase
               * positions[i].den * positions[i].den

C18_Witness ==
  /\ AfterParticlesFrame
  /\ \E i \in respawned :
       /\ InForcefield(MouseDist(i), forcefield.radius)
       /\ OffsetSquared(i) > 0

\* C19: 1/dist is evaluated only for dist > 1e-6; a particle within 1e-6 of
\* the mouse respawns at its base position; with radius 0 every respawning
\* particle stays at its base position and no position is a fault value.
C19_DivisionGuarded ==
  AfterParticlesFrame =>
    /\ \A d \in divisions : d > Epsilon
    /\ \A i \in respawned :
         /\ positions[i].den # 0
         /\ (MouseDist(i) <= Epsilon \/ forcefield.radius = 0)
              => positions[i] = At(sourceGeom[i])

C19_Witness ==
  /\ AfterParticlesFrame
  /\ forcefield.strengthBase > 0
  /\ \E i \in respawned :
       /\ MouseDist(i) = 0
       /\ forcefield.radius > 0
       /\ positions[i] = At(sourceGeom[i])
  /\ \E i \in respawned : MouseDist(i) \in divisions

\* ------------------------------------------------- claims: PFPCard (2)

\* The last step was the frame in which a spin completed.
SpinJustCompleted == event = "frame" /\ before.isSpinning /\ ~isSpinning

\* C21: after every completed spin, for any spinStartRotation, baseRotation
\* lies in (-pi, pi] and differs from spinStartRotation + 2pi by a whole
\* number of turns.
C21_SpinNormalization ==
  [][(isSpinning /\ ~isSpinning')
       => /\ baseRotation' > 0 - AnglePerPi
          /\ baseRotation' <= AnglePerPi
          /\ \E k \in (0 - MaxTurns - 2)..(MaxTurns + 2) :
               baseRotation' = spinStartRotation + TwoPi + k * TwoPi]_vars

C21_Witness ==
  /\ SpinJustCompleted
  /\ before.spinStartRotation < 0 - TwoPi
  /\ baseRotation > 0

\* C22: baseRotation changes only in the frame where a spin completes.
C22_BaseRotationOnlyAtCompletion ==
  [][baseRotation' # baseRotation
       => (event' = "frame" /\ isSpinning /\ ~isSpinning')]_vars

C22_Witness ==
  /\ SpinJustCompleted
  /\ baseRotation # before.baseRotation

\* C23: a failed texture load changes no crossfade state.
C23_LoadFailureChangesNothing ==
  [][event' = "loadError"
       => UNCHANGED <<currentTexture, nextTexture, isTransitioning,
                      transitionProgress, spinProgress, currentOpacity,
                      nextOpacity>>]_vars

C23_Witness ==
  /\ event = "loadError"
  /\ isTransitioning /\ nextTexture # Null /\ currentTexture # Null

\* C25: during a spin-coupled transition the crossfade progress written by
\* a frame is at least the progress written by the frame before it, and the
\* opacity written to the old texture is at most the one written before.
C25_SpinCrossfadeMonotone ==
  [][(/\ event = "frame" /\ event' = "frame"
      /\ isSpinning /\ isTransitioning
      /\ frameWrote.next # NoWrite /\ frameWrote'.next # NoWrite)
       => (frameWrote'.next >= frameWrote.next
           /\ frameWrote'.cur <= frameWrote.cur)]_vars

\* The newest texture the card holds (textures are numbered by request).
NewestTexture == Max(currentTexture, nextTexture)

\* C26: a completion callback of an older request never overrides the
\* texture of a newer one: the newest texture held never becomes older when
\* a load completes.
C26_LateLoadNeverOverrides ==
  [][event' = "loaded" => Max(currentTexture', nextTexture') >= NewestTexture]_vars

\* C27: a texture arriving while a current texture is set replaces
\* currentTexture only through a transition that is finalized; a texture
\* arriving while none is set is made current at once.
C27_ArrivalGoesThroughTransition ==
  [][event' = "loaded"
       => IF currentTexture # Null
          THEN (currentTexture' # currentTexture => finalized')
          ELSE currentTexture' = arrived'.tex]_vars

\* C28: the crossfade progress a frame writes during a spin-coupled
\* transition is clamp((spinProgress - 0.4)/0.6, 0, 1) of the spinProgress
\* the frame has reached, which is 1 in the frame that completes the spin.
C28_ProgressIsClampOfSpin ==
  (event = "frame" /\ before.isSpinning /\ before.isTransitioning
     /\ frameWrote.next # NoWrite)
    => LET reached == IF isSpinning THEN spinProgress ELSE ProgressOne
       IN /\ frameWrote.next = CrossfadeProgress(reached)
          /\ frameWrote.cur = OpacityOne - CrossfadeProgress(reached)

\* C29: isGenerating going from false to true while the card is Idle starts
\* a spin with spinStartRotation = baseRotation and spinProgress = 0;
\* isGenerating going from true to false changes neither isSpinning,
\* spinProgress nor spinStartRotation.
C29_GenerationStartsSpin ==
  [][/\ (~isGenerating /\ isGenerating' /\ ~isSpinning)
          => (isSpinning' /\ spinStartRotation' = baseRotation
              /\ spinProgress' = 0)
     /\ (isGenerating /\ ~isGenerating')
          => UNCHANGED <<isSpinning, spinProgress, spinStartRotation>>]_vars

C29_Witness ==
  /\ event = "isGenerating" /\ isGenerating
  /\ ~before.isSpinning /\ isSpinning
  /\ spinStartRotation = baseRotation /\ baseRotation # 0
  /\ spinProgress = 0

\* C30: a spin that starts from a rotation in (-pi, pi] completes with
\* baseRotation equal to that rotation; from 0 it stays 0.
C30_SpinKeepsOrientation ==
  [][(isSpinning /\ ~isSpinning'
      /\ spinStartRotation > 0 - AnglePerPi /\ spinStartRotation <= AnglePerPi)
       => baseRotation' = spinStartRotation]_vars

C30_Witness ==
  /\ SpinJustCompleted
  /\ before.spinStartRotation = AnglePerPi
  /\ baseRotation = AnglePerPi

\* ----------------------------------------------- claims: FloatingParticles (2)

\* C24: without source geometry there are no particles, and a frame callback
\* writes nothing: no position, no time latch, no uniform, no step taken.
C24_MissingGeometryIsNoOp ==
  [][/\ sourceGeom' = NoGeom => (lifetimes' = <<>> /\ positions' = <<>>)
     /\ (sourceGeom = NoGeom /\ burstEvent' \in {"frame", "ended", "skipped"})
          => /\ burstEvent' = "skipped"
             /\ frameSteps' = <<>>
             /\ UNCHANGED <<positions, lifetimes, lastTime, uTime,
                            uTransactionType, uTransactionIntensity,
                            burstState>>]_vars

C24_Witness ==
  /\ burstEvent = "skipped"
  /\ sourceGeom = NoGeom
  /\ burstState.isActive
  /\ positions = <<>>
\* ------------------------------------- claims: FloatingParticles (3)

\* C31: a frame of the forcefield swarm writes the position of particle i
\* if and only if age_i < delta, the written position being the seed computed
\* from the base position; the positions of all other particles, every base
\* position, velocity and phase offset, and the number of particles are left
\* unchanged by the frame.
C31_TickRewritesOnlyRespawned ==
  [][lastTime' # lastTime =>
       LET delta == clockTime - lastTime
           just == {i \in 1..Len(lifetimes) :
                      Fmod(clockTime - lifetimes[i], ParticleLifetime) < delta}
       IN /\ respawned' = just
          /\ Len(positions') = Len(positions)
          /\ \A i \in 1..Len(positions) :
               IF i \in just
               THEN \E n \in Noises :
                      positions'[i] =
                        Displace(originalPositions[i], forcefield'.localMouse,
                                 forcefield'.radius, forcefield'.strengthBase,
                                 LayersOf(n, i))
               ELSE positions'[i] = positions[i]
          /\ originalPositions' = originalPositions
          /\ velocities' = velocities
          /\ lifetimes' = lifetimes]_vars

\* a frame has respawned one particle and left alone another one, which keeps
\* the displaced position of its own earlier respawn
C31_Witness ==
  /\ AfterParticlesFrame
  /\ lastTime = clockTime
  /\ \E i \in respawned, j \in DOMAIN positions \ respawned :
       /\ positions[j] # At(originalPositions[j])
       /\ ages[i] < ParticleLifetime /\ ages[j] > 0

\* C32: displacement is not cumulative.  The seed of a respawning particle
\* is computed from its base position, which the frame leaves alone, and the
\* forcefield of the frame, whatever position the particle had before; if the
\* base position is outside the radius, the seed is exactly the base position.
C32_SeedFromBasePosition ==
  [][lastTime' # lastTime =>
       \A i \in respawned' :
         /\ originalPositions'[i] = originalPositions[i]
         /\ \E n \in Noises :
              positions'[i] =
                Displace(originalPositions[i], forcefield'.localMouse,
                         forcefield'.radius, forcefield'.strengthBase,
                         LayersOf(n, i))
         /\ Dist(originalPositions[i], forcefield'.localMouse)
              >= forcefield'.radius
            => positions'[i] = At(originalPositions[i])]_vars

\* a particle displaced by its earlier respawn has respawned with its base
\* position outside the radius, and sits at its base position
C32_Witness ==
  /\ AfterParticlesFrame
  /\ lastTime = clockTime
  /\ \E i \in respawned :
       /\ previousPositions[i] # At(originalPositions[i])
       /\ Dist(originalPositions[i], forcefield.localMouse) >= forcefield.radius
       /\ forcefield.radius > 0 /\ forcefield.strengthBase > 0
       /\ positions[i] = At(originalPositions[i])

\* positions[i] - base, times the denominator, and base - localMouse
Offset(i) ==
  [k \in 1..3 |-> positions[i].v[k] - originalPositions[i][k] * positions[i].den]

AwayFromSource(i) ==
  [k \in 1..3 |-> originalPositions[i][k] - forcefield.localMouse[k]]

\* The offset of particle i is a non-negative multiple of base - localMouse.
PointsAway(i) ==
  /\ \A k \in 1..3, j \in 1..3 :
       Offset(i)[k] * AwayFromSource(i)[j] = Offset(i)[j] * AwayFromSource(i)[k]
  /\ \A k \in 1..3 : Offset(i)[k] * AwayFromSource(i)[k] >= 0

\* The length of the offset of particle i is at least (at most) tenths/10 x
\* strength x force, with force = (1 - dist/radius)^2.  For an offset along
\* base - localMouse the length is the scalar product divided by dist.
ScaledForce(i, tenths) ==
  tenths * forcefield.strengthBase
    * (forcefield.radius - MouseDist(i)) * (forcefield.radius - MouseDist(i))
    * positions[i].den

Along(i) ==
  (Offset(i)[1] * AwayFromSource(i)[1] + Offset(i)[2] * AwayFromSource(i)[2]
   + Offset(i)[3] * AwayFromSource(i)[3]) * 10 * forcefield.radius
    * forcefield.radius

DisplacementAtLeast(i, tenths) ==
  IF OffsetSquared(i) = 0 THEN ScaledForce(i, tenths) <= 0
  ELSE MouseDist(i) > 0 /\ Along(i) >= ScaledForce(i, tenths) * MouseDist(i)

DisplacementAtMost(i, tenths) ==
  IF OffsetSquared(i) = 0 THEN ScaledForce(i, tenths) >= 0
  ELSE MouseDist(i) > 0 /\ Along(i) <= ScaledForce(i, tenths) * MouseDist(i)

\* combinedNoise lies in [0, 1] and randomFactor in [0.3, 1.0] for all layers
NoiseInRange ==
  \A layers \in [1..4 -> 0..1] :
    /\ CombinedNoise(layers) \in 0..10
    /\ RandomFactor(layers) \in 30..100

\* C33 as stated: for any noise layers in [0, 1] the combined noise lies in
\* [0, 1] and randomFactor in [0.3, 1.0]; hence every respawning particle
\* strictly inside the radius is displaced by at least 0.3 x strength x force,
\* directly away from the source.
C33_InsideRadiusDisplaced ==
  /\ NoiseInRange
  /\ AfterParticlesFrame =>
       \A i \in respawned :
         WithinRadius(MouseDist(i), forcefield.radius)
           => PointsAway(i) /\ DisplacementAtLeast(i, 3)

\* C33, amended: for any noise layers in [0, 1] the combined noise lies in
\* [0, 1] and randomFactor in [0.3, 1.0]; hence every respawning particle
\* whose distance from the source is above 1e-6 and below the radius is
\* displaced, for a strength >= 0, by at least 0.3 and at most 1.0 x strength
\* x force, directly away from the source.
C33_InForcefieldDisplaced ==
  /\ NoiseInRange
  /\ AfterParticlesFrame =>
       \A i \in respawned :
         InForcefield(MouseDist(i), forcefield.radius)
           => /\ PointsAway(i)
              /\ DisplacementAtLeast(i, 3)
              /\ DisplacementAtMost(i, 10)

\* a particle in the forcefield has respawned displaced by exactly 0.3 x
\* strength x force, the least randomFactor
C33_Witness ==
  /\ AfterParticlesFrame
  /\ forcefield.strengthBase > 0
  /\ \E i \in respawned :
       /\ InForcefield(MouseDist(i), forcefield.radius)
       /\ OffsetSquared(i) > 0
       /\ DisplacementAtMost(i, 3)

\* ------------------------------------------------ claims: burst timing

\* C34: burst timing reads the global time the frame latches: the start time
\* of a burst of either particle system is a reading of that time, hence not
\* later than the clock and comparable with the time uniform, and the elapsed
\* time a frame uses for the burst is its globalTime minus the start time.
C34_BurstReadsGlobalTime ==
  /\ burstState.isActive =>
       /\ burstState.startTime <= clockTime
       /\ AfterParticlesFrame => BurstElapsed = uTime - burstState.startTime
  /\ wasBursting => burstTime <= clockTime

\* ----------------------------------------------- claims: burst physics

\* particle q is particle p after one integration over delta ticks:
\* velocity.y has decreased by 2 x delta and then the whole velocity was
\* multiplied by 0.98; the position has increased by the updated velocity x
\* delta; life has decreased by delta / maxLife.
IntegratedFrom(q, p, delta) ==
  /\ q.velocity.initial = <<0>> \o p.velocity.initial
  /\ q.velocity.gravity =
       <<0>> \o [p.velocity.gravity EXCEPT ![1] = @ - 2 * delta]
  /\ q.position.initial =
       PolyAdd(p.position.initial, PolyScale(delta, q.velocity.initial))
  /\ q.position.gravity =
       PolyAdd(p.position.gravity, PolyScale(delta, q.velocity.gravity))
  /\ q.life * q.maxLife = p.life * p.maxLife - delta * 10 * 40
  /\ q.maxLife = p.maxLife

C36_BurstListSize ==
  /\ burstState.isActive =>
       BagCardinality(burstState.burstParticles) = numBurstParticles
  /\ ~burstState.isActive => burstState.burstParticles = EmptyBag
  /\ BagCardinality(burstState.burstParticles) <= numBurstParticles

\* a trigger has arrived while the burst it would start was already being
\* integrated
C36_Witness ==
  /\ burstEvent = "ignored"
  /\ burstState.isActive
  /\ BurstFrames >= 1
  /\ BagCardinality(burstState.burstParticles) = numBurstParticles

\* C37: the life of every burst particle stays within [0, 1] as long as the
\* burst is active, for every maxLife and every burstDuration.
C37_LifeInRange ==
  burstState.isActive =>
    \A p \in BagToSet(burstState.burstParticles) :
      p.life >= 0 /\ p.life <= LifeOne

\* ------------------------------------------ claims: ParticleFrame latch

\* C38: in the frame swarm the burst start time is latched only on a rising
\* edge of isGenerating, while the stored previous flag is false, and then
\* holds the current time; it is not latched again while isGenerating stays
\* true; the stored flag is cleared when isGenerating becomes false, so the
\* flag equals isGenerating after every processed change.
C38_BurstLatchedOnRisingEdge ==
  [][/\ (~isGenerating /\ isGenerating') =>
          ~wasBursting /\ wasBursting' /\ burstTime' = dateNow'
     /\ burstTime' # burstTime => ~isGenerating /\ isGenerating'
     /\ (isGenerating /\ ~isGenerating') => ~wasBursting'
     /\ wasBursting' = isGenerating']_vars

\* a generation has ended some time after its burst was latched
C38_Witness ==
  /\ frameOutcome = "isGenerating"
  /\ ~isGenerating /\ ~wasBursting
  /\ burstTime > EpochTicks
  /\ burstTime < dateNow

====
